---------------------------- MODULE Spec2Model ----------------------------
(***************************************************************************)
(* Train Live Bot: the per-chat live-tracking engine of the two variants   *)
(* of the repository.                                                       *)
(*   variant "bot"  : src/bot.py  (job queue poll job + animation task)    *)
(*   variant "bot1" : src/bot1.py (one asyncio track_train task per chat)  *)
(* Both run on a single-threaded asyncio event loop: the code between two  *)
(* awaits is one atomic step; command handlers are dispatched one update   *)
(* at a time, background tasks interleave with them at every await.        *)
(***************************************************************************)
EXTENDS Integers, Sequences, FiniteSets, TLC

\* ------------------------------------------------------------ bounds
MaxStarts == 2
MaxMsgs == 2
MaxAnims == 2
MaxRouteLen == 3
MaxDelay == 3700
MaxMsgsTwoChats == 2
MaxAnimsTwoChats == 1

\* ------------------------------------------------------------ domains
Variants == {"bot", "bot1"}
Chats == {1, 2}
Trains == {"12303"}
\* Python's None as a dictionary value or a missing JSON field.
PyNone == "None"
\* Option values: <<>> is None, <<x>> is x.
NoneOpt == <<>>
Some(x) == <<x>>

\* The route of the tracked train, as the status API returns it.
Route ==
  << [stationCode |-> "NDLS", station_name |-> "New Delhi"],
     [stationCode |-> "CNB", station_name |-> "Kanpur"],
     [stationCode |-> "HWH", station_name |-> "Howrah"] >>
\* currentPosition.stationCode values the API may report: two stations of
\* the route and a code that is not in the route.
PosCodes == {"NDLS", "CNB", "ZZZ"}
\* The outcome of requests.get(...).json(): an exception (network error,
\* timeout, malformed body), success=false, or success=true with data.
Responses ==
  {[status |-> "error", code |-> PyNone],
   [status |-> "unsuccessful", code |-> PyNone]}
  \cup {[status |-> "ok", code |-> c] : c \in PosCodes}

\* Inputs of the resolver on its own: stations whose code may repeat or be
\* missing, routes of up to MaxRouteLen stations, any reported code.
Stations == [stationCode : {"NDLS", "CNB", PyNone}, station_name : {"a", "b"}]
Routes == UNION {[1..n -> Stations] : n \in 0..MaxRouteLen}
Codes == {"NDLS", "CNB", "ZZZ", PyNone}

\* ------------------------------------------------------------ resolver
\* bot1.py get_context: linear scan for the first station whose code
\* equals the position's code; Python indices i-1 / i+1 guarded.
RECURSIVE ScanRoute(_, _, _)
ScanRoute(route, code, i) ==
  IF i > Len(route) THEN [cur |-> NoneOpt, prev |-> NoneOpt, nxt |-> NoneOpt]
  ELSE IF route[i].stationCode = code
       THEN [cur |-> Some(route[i]),
             prev |-> IF i > 1 THEN Some(route[i - 1]) ELSE NoneOpt,
             nxt |-> IF i < Len(route) THEN Some(route[i + 1]) ELSE NoneOpt]
       ELSE ScanRoute(route, code, i + 1)

\* A resolver that drops the "if i > 0" guard: Python's route[-1] is the
\* last station.
get_context_noguard(info) ==
  LET r == ScanRoute(info.route, info.code, 1)
  IN IF r.cur # NoneOpt /\ r.prev = NoneOpt
     THEN [r EXCEPT !.prev = Some(info.route[Len(info.route)])]
     ELSE r

get_context(info) == ScanRoute(info.route, info.code, 1)

\* bot.py line 156: next(i for i, s in enumerate(route) if ...): the first
\* matching index (1-based here), 0 standing for StopIteration.
RECURSIVE NextIdx(_, _, _)
NextIdx(route, code, i) ==
  IF i > Len(route) THEN 0
  ELSE IF route[i].stationCode = code THEN i
  ELSE NextIdx(route, code, i + 1)

\* bot.py lines 156-159; raised stands for the StopIteration of line 156.
resolve_bot(info) ==
  LET idx == NextIdx(info.route, info.code, 1)
  IN IF idx = 0
     THEN [raised |-> TRUE, cur |-> NoneOpt, prev |-> NoneOpt,
           nxt |-> NoneOpt]
     ELSE [raised |-> FALSE,
           cur |-> Some(info.route[idx]),
           prev |-> IF idx > 1 THEN Some(info.route[idx - 1]) ELSE NoneOpt,
           nxt |-> IF idx < Len(info.route)
                   THEN Some(info.route[idx + 1]) ELSE NoneOpt]

\* ------------------------------------------------------------ renderer
\* A text is the sequence of its lines; a line is the symbols it starts with
\* (its glyph, a sequence) and the body that follows them.  Only the lines
\* that depend on the poll are kept (train, section headers, station names).
Line(b) == [glyph |-> <<>>, body |-> b]
CurAnchor == [glyph |-> <<"PIN">>, body |-> "*Current Station*"]
PrevAnchor == [glyph |-> <<"LEFT">>, body |-> "*Previous Station*"]
NextAnchor == [glyph |-> <<"RIGHT">>, body |-> "*Next Station*"]

\* bot.py lines 161-185 (cur is resolved there).
render_bot(train, r) ==
  <<Line(train), CurAnchor, Line(r.cur[1].station_name)>>
  \o (IF r.prev # NoneOpt
      THEN <<PrevAnchor, Line(r.prev[1].station_name)>> ELSE <<>>)
  \o (IF r.nxt # NoneOpt
      THEN <<NextAnchor, Line(r.nxt[1].station_name)>> ELSE <<>>)

\* bot1.py lines 138-165: an unresolved current station renders "Unknown".
render_bot1(train, r) ==
  <<Line(train), Line("Current Station:"),
    Line(IF r.cur # NoneOpt THEN r.cur[1].station_name ELSE "Unknown")>>
  \o (IF r.prev # NoneOpt
      THEN <<Line("Previous Station"), Line(r.prev[1].station_name)>>
      ELSE <<>>)
  \o (IF r.nxt # NoneOpt
      THEN <<Line("Next Station"), Line(r.nxt[1].station_name)>>
      ELSE <<>>)

\* bot.py lines 217-221: the glyphs of the three frames.
frames ==
  << [c |-> <<"PIN">>, p |-> <<"LEFT", ".">>, n |-> <<"RIGHT">>],
     [c |-> <<"PIN", ">">>, p |-> <<"LEFT", ".", ".">>,
      n |-> <<"RIGHT", "RIGHT">>],
     [c |-> <<"PIN", ">", "PIN">>, p |-> <<"LEFT", ".", ".", ".">>,
      n |-> <<"RIGHT", "RIGHT", "RIGHT">>] >>

\* str.replace(old, new) on one line: old occurs in the line when the body
\* is old's body and old's glyph ends the line's glyph; that occurrence is
\* replaced by new.
IsSuffix(g, h) ==
  /\ Len(g) <= Len(h)
  /\ SubSeq(h, Len(h) - Len(g) + 1, Len(h)) = g
ReplaceLine(line, old, new) ==
  IF line.body = old.body /\ IsSuffix(old.glyph, line.glyph)
  THEN [glyph |-> SubSeq(line.glyph, 1, Len(line.glyph) - Len(old.glyph))
                    \o new.glyph,
        body |-> new.body]
  ELSE line
Decorated(anchor, g) == [anchor EXCEPT !.glyph = g]

\* The three chained str.replace calls of lines 226-231 on a text.
apply_frame(text, f) ==
  [i \in 1..Len(text) |->
     ReplaceLine(
       ReplaceLine(
         ReplaceLine(text[i], CurAnchor, Decorated(CurAnchor, f.c)),
         PrevAnchor, Decorated(PrevAnchor, f.p)),
       NextAnchor, Decorated(NextAnchor, f.n))]

\* A frame built from the text of the frame before it instead of from
\* base_text.
PrevFrame(f) ==
  LET i == CHOOSE k \in 1..Len(frames) : frames[k] = f
  IN frames[IF i = 1 THEN Len(frames) ELSE i - 1]
animated_on_previous(base_text, f) ==
  apply_frame(apply_frame(base_text, PrevFrame(f)), f)

\* bot.py lines 226-231: the frame is built from base_text.
animated(base_text, f) == apply_frame(base_text, f)

\* ------------------------------------------------------------ delay text
\* A delay text is its format string with the numbers it is filled with
\* (0 for a number the format does not show).
DelayText(fmt, h, m) == [fmt |-> fmt, h |-> h, m |-> m]

\* A delay_from_secs that does not reduce the minutes modulo 60.
delay_from_secs_no_mod(sec) ==
  IF sec = NoneOpt \/ sec[1] = 0 \/ sec[1] <= 0
  THEN DelayText("On Time", 0, 0)
  ELSE LET m == sec[1] \div 60
           h == m \div 60
       IN IF h # 0 THEN DelayText("{h} hour {m} minute late", h, m)
          ELSE DelayText("{m} minute late", 0, m)

\* bot1.py lines 40-46; "not sec" is true of None and of 0.
delay_from_secs(sec) ==
  IF sec = NoneOpt \/ sec[1] = 0 \/ sec[1] <= 0
  THEN DelayText("On Time", 0, 0)
  ELSE LET m0 == sec[1] \div 60
           h == m0 \div 60
           m == m0 % 60
       IN IF h # 0 THEN DelayText("{h} hour {m} minute late", h, m)
          ELSE DelayText("{m} minute late", 0, m)

\* bot.py lines 33-41: the delay between two timestamps; "not actual" is
\* true of None and of 0.
delay_hm(actual, scheduled) ==
  IF actual = NoneOpt \/ actual[1] = 0 \/ scheduled = NoneOpt
     \/ scheduled[1] = 0
  THEN DelayText("N/A", 0, 0)
  ELSE LET diff == actual[1] - scheduled[1]
       IN IF diff <= 0 THEN DelayText("On Time", 0, 0)
          ELSE LET h == diff \div 3600
                   m == (diff % 3600) \div 60
               IN IF h # 0 THEN DelayText("{h}h {m}m", h, m)
                  ELSE DelayText("{m}m", 0, m)

\* Inputs of the delay texts: an absent delay and every delay from -2 to
\* MaxDelay seconds; absent, zero and a few epoch timestamps.
Secs == {NoneOpt} \cup {Some(n) : n \in -2..MaxDelay}
Times == {NoneOpt} \cup {Some(n) : n \in {0, 900, 1000, 1090, 4660}}

\* ------------------------------------------------------------ dicts
\* A Python dict is a function on its key set.
Pop(d, k) == [x \in DOMAIN d \ {k} |-> d[x]]
Put(d, k, v) == [x \in DOMAIN d \cup {k} |-> IF x = k THEN v ELSE d[x]]
EmptyDict == [x \in {} |-> 0]


\* ------------------------------------------------------------ state
VARIABLES
  variant,            \* which program is deployed: "bot" or "bot1"
  chats,              \* the chats that send commands to the bot
  active_trains,      \* chat_id -> train_no
  message_ids,        \* chat_id -> message_id
  tasks,              \* bot1: chat_id -> track_train task (its id)
  last_station_code,  \* bot1: chat_id -> last station code
  animation_tasks,    \* bot: chat_id -> animate_message task (its id)
  jobs,               \* bot: chat_id -> the job queue's jobs of that name
  track,              \* bot1: the track_train tasks that are not finished
  runs,               \* bot: fetch_and_render runs suspended at an await
  anims,              \* bot: the animate_message tasks that are not finished
  handler,            \* the command handler in progress, if any
  msgs,               \* the messages Telegram has created, msgs[id]
  next_task,          \* ids handed to asyncio tasks so far
  session,            \* chat_id -> number of StartTracking so far
  sent_text,          \* chat_id -> last text the engine sent or edited
  ev,                 \* the last step taken
  info, ctx           \* input of a pure function (resolver, delay text)
                      \* and the result of applying it

vars ==
  <<variant, chats, active_trains, message_ids, tasks, last_station_code,
    animation_tasks, jobs, track, runs, anims, handler, msgs, next_task,
    session, sent_text, ev, info, ctx>>

registry ==
  <<active_trains, message_ids, tasks, last_station_code, animation_tasks,
    jobs>>
background == <<track, runs, anims>>

NoText == <<>>
Idle == [op |-> "idle", chat |-> 0]
\* The last step: the operation, its chat, the session of the task that took
\* it and the step's input (the command's argument, the fetch's outcome or
\* reported station code, whether an awaited call succeeded).
Event(op, c, s, arg) == [op |-> op, chat |-> c, id |-> s, arg |-> arg]
Outcome(ok) == IF ok THEN "ok" ELSE "failed"
Fetched(resp) == IF resp.status = "ok" THEN resp.code ELSE resp.status

InitProgram ==
  /\ active_trains = EmptyDict
  /\ message_ids = EmptyDict
  /\ tasks = EmptyDict
  /\ last_station_code = EmptyDict
  /\ animation_tasks = EmptyDict
  /\ jobs = [c \in Chats |-> {}]
  /\ track = {}
  /\ runs = {}
  /\ anims = {}
  /\ handler = Idle
  /\ msgs = <<>>
  /\ next_task = 0
  /\ session = [c \in Chats |-> 0]
  /\ sent_text = [c \in Chats |-> NoText]
  /\ ev = Event("init", 0, 0, "")

Init ==
  /\ variant \in Variants
  /\ chats = {1}
  /\ InitProgram
  /\ info = [route |-> Route, code |-> PyNone]
  /\ ctx = NoneOpt

\* ------------------------------------------------------------ helpers
\* task.cancel() on the task registered under chat c (if any): the task is
\* suspended at an await and gets CancelledError there, so it takes no
\* further step.  live is the set of unfinished tasks, d the handle map.
cancel_task_forgotten(live, d, c) == live

cancel_task(live, d, c) ==
  IF c \in DOMAIN d THEN {k \in live : ~(k.chat = c /\ k.id = d[c])} ELSE live

\* "if not json_data.get('success')" together with the except clause that
\* catches a failed requests.get / r.json().
fetch_failed_no_success_check(resp) == resp.status = "error"

fetch_failed(resp) == resp.status # "ok"

Data(resp) == [route |-> Route, code |-> resp.code]
NewMsg(c, kind, s) == [chat |-> c, kind |-> kind, sess |-> s]

\* The messages Telegram creates and the animation tasks asyncio starts are
\* bounded, more tightly when two chats talk to the bot.
MsgLimit == IF Cardinality(chats) > 1 THEN MaxMsgsTwoChats ELSE MaxMsgs
AnimLimit == IF Cardinality(chats) > 1 THEN MaxAnimsTwoChats ELSE MaxAnims

CmdFrame == UNCHANGED <<variant, chats, info, ctx>>
TaskFrame == UNCHANGED <<variant, chats, info, ctx, handler, session>>

\* ------------------------------------------------------------ commands
\* /addtrain with no argument (bot.py 72-75, bot1.py 84-86): the usage reply
\* is awaited and the handler returns.
AddUsage_cancels_first(c) ==
  /\ active_trains' = active_trains
  /\ message_ids' = Pop(message_ids, c)
  /\ tasks' = Pop(tasks, c)
  /\ track' = cancel_task(track, tasks, c)
  /\ jobs' = [jobs EXCEPT ![c] = {}]
  /\ animation_tasks' = Pop(animation_tasks, c)
  /\ anims' = cancel_task(anims, animation_tasks, c)
  /\ UNCHANGED <<last_station_code, runs, handler, msgs, next_task, session,
                 sent_text>>
  /\ ev' = Event("add_train", c, session[c], "")

AddUsage(c) ==
  /\ UNCHANGED <<registry, background, handler, msgs, next_task, session,
                 sent_text>>
  /\ ev' = Event("add_train", c, session[c], "")

\* bot1.py add_train lines 88-95, up to the await of the confirmation reply.
AddTrainBot1(c, train) ==
  /\ active_trains' = Put(active_trains, c, train)
  /\ session' = [session EXCEPT ![c] = @ + 1]
  /\ track' = cancel_task(track, tasks, c)
               \cup {[chat |-> c, id |-> session'[c], pc |-> "ready",
                      last_text |-> NoText, text |-> NoText, mid |-> 0]}
  /\ tasks' = Put(tasks, c, session'[c])
  /\ handler' = [op |-> "add_reply", chat |-> c]
  /\ UNCHANGED <<message_ids, last_station_code, animation_tasks, jobs, runs,
                 anims, msgs, next_task, sent_text>>
  /\ ev' = Event("add_train", c, session'[c], train)

\* bot1.py add_train lines 95-96: the reply returns and its id is stored;
\* if reply_text raises, the handler ends there.
AddReplyBot1(ok) ==
  /\ variant = "bot1"
  /\ handler.op = "add_reply"
  /\ LET c == handler.chat
     IN IF ok
        THEN /\ Len(msgs) < MsgLimit
             /\ msgs' = Append(msgs, NewMsg(c, "reply", session[c]))
             /\ message_ids' = Put(message_ids, c, Len(msgs'))
             /\ ev' = Event("add_reply", c, session[c], "ok")
        ELSE /\ UNCHANGED <<msgs, message_ids>>
             /\ ev' = Event("add_reply", c, session[c], "failed")
  /\ handler' = Idle
  /\ UNCHANGED <<active_trains, tasks, last_station_code, animation_tasks,
                 jobs, background, next_task, session, sent_text>>
  /\ CmdFrame

\* remove_train without the "if cid in tasks" guard: tasks[cid] raises
\* KeyError for an untracked chat and the handler ends at line 104.
RemoveTrainBot1_unguarded(c) ==
  /\ active_trains' = Pop(active_trains, c)
  /\ last_station_code' = Pop(last_station_code, c)
  /\ track' = cancel_task(track, tasks, c)
  /\ tasks' = Pop(tasks, c)
  /\ message_ids' = IF c \in DOMAIN tasks THEN Pop(message_ids, c)
                    ELSE message_ids
  /\ UNCHANGED <<animation_tasks, jobs, runs, anims, handler, msgs,
                 next_task, session, sent_text>>
  /\ ev' = Event(IF c \in DOMAIN tasks THEN "remove_train"
                 ELSE "remove_error", c, session[c], "")

\* bot1.py remove_train lines 98-108.
RemoveTrainBot1(c) ==
  /\ active_trains' = Pop(active_trains, c)
  /\ last_station_code' = Pop(last_station_code, c)
  /\ track' = cancel_task(track, tasks, c)
  /\ tasks' = Pop(tasks, c)
  /\ message_ids' = Pop(message_ids, c)
  /\ UNCHANGED <<animation_tasks, jobs, runs, anims, handler, msgs,
                 next_task, session, sent_text>>
  /\ ev' = Event("remove_train", c, session[c], "")

\* ------------------------------------------------------------ bot1 engine
SetTask(k, pc, lt, text, mid) ==
  track' = (track \ {k})
             \cup {[k EXCEPT !.pc = pc, !.last_text = lt, !.text = text,
                            !.mid = mid]}

\* bot1.py track_train lines 114-186: one pass of the loop from the top to
\* the first await (requests.get is a blocking call, not an await).
PollBot1(k, resp) ==
  /\ variant = "bot1"
  /\ k \in track /\ k.pc = "ready"
  /\ LET c == k.chat
     IN IF c \notin DOMAIN active_trains
        THEN \* line 116-117: return
             /\ track' = track \ {k}
             /\ UNCHANGED last_station_code
             /\ ev' = Event("poll", c, k.id, Fetched(resp))
        ELSE IF fetch_failed(resp)
        THEN \* lines 121-123 (sleep 15) and 189-191 (sleep 20)
             /\ UNCHANGED <<track, last_station_code>>
             /\ ev' = Event("poll", c, k.id, Fetched(resp))
        ELSE LET r == get_context(Data(resp))
                 text == render_bot1(active_trains[c], r)
             IN /\ last_station_code' = Put(last_station_code, c, resp.code)
                /\ IF c \in DOMAIN message_ids
                   THEN IF text # k.last_text
                        THEN /\ SetTask(k, "await_edit", k.last_text, text,
                                        message_ids[c])
                             /\ ev' = Event("poll", c, k.id, Fetched(resp))
                        ELSE /\ UNCHANGED track
                             /\ ev' = Event("poll", c, k.id, Fetched(resp))
                   ELSE /\ SetTask(k, "await_send", k.last_text, text, 0)
                        /\ ev' = Event("poll", c, k.id, Fetched(resp))
  /\ UNCHANGED <<active_trains, message_ids, tasks, animation_tasks, jobs,
                 runs, anims, msgs, next_task, sent_text>>
  /\ TaskFrame

\* A track_train without its "except Exception": a failed edit ends the
\* task.
EditDoneBot1_crashes(k, ok) ==
  /\ variant = "bot1"
  /\ k \in track /\ k.pc = "await_edit"
  /\ IF ok
     THEN /\ SetTask(k, "ready", k.text, NoText, 0)
          /\ sent_text' = [sent_text EXCEPT ![k.chat] = k.text]
          /\ ev' = Event("edit_done", k.chat, k.id, "ok")
     ELSE /\ track' = track \ {k}
          /\ UNCHANGED sent_text
          /\ ev' = Event("edit_done", k.chat, k.id, "failed")
  /\ UNCHANGED <<registry, runs, anims, msgs, next_task>>
  /\ TaskFrame

\* bot1.py lines 170-176 and 189-191: edit_message_text returns or raises.
EditDoneBot1(k, ok) ==
  /\ variant = "bot1"
  /\ k \in track /\ k.pc = "await_edit"
  /\ IF ok
     THEN /\ SetTask(k, "ready", k.text, NoText, 0)
          /\ sent_text' = [sent_text EXCEPT ![k.chat] = k.text]
          /\ ev' = Event("edit_done", k.chat, k.id, "ok")
     ELSE /\ SetTask(k, "ready", k.last_text, NoText, 0)
          /\ UNCHANGED sent_text
          /\ ev' = Event("edit_done", k.chat, k.id, "failed")
  /\ UNCHANGED <<registry, runs, anims, msgs, next_task>>
  /\ TaskFrame

\* bot1.py lines 178-184 and 189-191: send_message returns or raises.
SendDoneBot1(k, ok) ==
  /\ variant = "bot1"
  /\ k \in track /\ k.pc = "await_send"
  /\ IF ok
     THEN /\ Len(msgs) < MsgLimit
          /\ msgs' = Append(msgs, NewMsg(k.chat, "live", k.id))
          /\ message_ids' = Put(message_ids, k.chat, Len(msgs'))
          /\ SetTask(k, "ready", k.text, NoText, 0)
          /\ sent_text' = [sent_text EXCEPT ![k.chat] = k.text]
          /\ ev' = Event("send_done", k.chat, k.id, "ok")
     ELSE /\ SetTask(k, "ready", k.last_text, NoText, 0)
          /\ UNCHANGED <<msgs, message_ids, sent_text>>
          /\ ev' = Event("send_done", k.chat, k.id, "failed")
  /\ UNCHANGED <<active_trains, tasks, last_station_code, animation_tasks,
                 jobs, runs, anims, next_task>>
  /\ TaskFrame

\* ------------------------------------------------------------ bot commands
\* bot.py add_train lines 77-102; the confirmation reply that follows
\* (line 104) changes no state.
AddTrainBot(c, train) ==
  /\ active_trains' = Put(active_trains, c, train)
  /\ session' = [session EXCEPT ![c] = @ + 1]
  /\ anims' = cancel_task(anims, animation_tasks, c)
  /\ animation_tasks' = Pop(animation_tasks, c)
  /\ jobs' = [jobs EXCEPT ![c] = {session'[c]}]
  /\ message_ids' = Pop(message_ids, c)
  /\ UNCHANGED <<tasks, last_station_code, track, runs, handler, msgs,
                 next_task, sent_text>>
  /\ ev' = Event("add_train", c, session'[c], train)

\* A remove_train that unschedules the jobs of every chat, not only those
\* named after its own chat.
RemoveTrainBot_all_jobs(c) ==
  /\ active_trains' = Pop(active_trains, c)
  /\ jobs' = [x \in Chats |-> {}]
  /\ anims' = cancel_task(anims, animation_tasks, c)
  /\ animation_tasks' = Pop(animation_tasks, c)
  /\ message_ids' = Pop(message_ids, c)
  /\ UNCHANGED <<tasks, last_station_code, track, runs, handler, msgs,
                 next_task, session, sent_text>>
  /\ ev' = Event("remove_train", c, session[c], "")

\* bot.py remove_train lines 110-125.
RemoveTrainBot(c) ==
  /\ active_trains' = Pop(active_trains, c)
  /\ jobs' = [jobs EXCEPT ![c] = {}]
  /\ anims' = cancel_task(anims, animation_tasks, c)
  /\ animation_tasks' = Pop(animation_tasks, c)
  /\ message_ids' = Pop(message_ids, c)
  /\ UNCHANGED <<tasks, last_station_code, track, runs, handler, msgs,
                 next_task, session, sent_text>>
  /\ ev' = Event("remove_train", c, session[c], "")

\* The number of StartTracking commands handled so far is bounded.
RECURSIVE SumOver(_, _)
SumOver(f, S) ==
  IF S = {} THEN 0
  ELSE LET x == CHOOSE y \in S : TRUE IN f[x] + SumOver(f, S \ {x})
CanStart == SumOver(session, Chats) < MaxStarts

\* The dispatcher hands one update at a time to its handler.
AddTrain(c, args) ==
  /\ handler = Idle
  /\ IF args = <<>> THEN AddUsage(c)
     ELSE IF ~CanStart THEN FALSE
     ELSE IF variant = "bot" THEN AddTrainBot(c, args[1])
     ELSE AddTrainBot1(c, args[1])
  /\ CmdFrame

RemoveTrain(c) ==
  /\ handler = Idle
  /\ IF variant = "bot" THEN RemoveTrainBot(c) ELSE RemoveTrainBot1(c)
  /\ CmdFrame

\* ------------------------------------------------------------ bot engine
\* bot.py fetch_and_render lines 131-199: the job queue runs the callback of
\* job j of chat c (never two runs of one job at a time), up to its first
\* await.
JobRun(c, j, resp) ==
  /\ variant = "bot"
  /\ j \in jobs[c]
  /\ ~\E r \in runs : r.chat = c /\ r.id = j
  /\ IF c \notin DOMAIN active_trains
     THEN /\ UNCHANGED runs
          /\ ev' = Event("poll", c, j, Fetched(resp))
     ELSE IF fetch_failed(resp)
     THEN /\ UNCHANGED runs
          /\ ev' = Event("poll", c, j, Fetched(resp))
     ELSE LET r == resolve_bot(Data(resp))
          IN IF r.raised
             THEN \* StopIteration at line 156, caught at line 212
                  /\ UNCHANGED runs
                  /\ ev' = Event("poll", c, j, Fetched(resp))
             ELSE LET text == render_bot(active_trains[c], r)
                  IN IF c \notin DOMAIN message_ids
                     THEN /\ runs' = runs \cup
                               {[chat |-> c, id |-> j, pc |-> "await_send",
                                 text |-> text, mid |-> 0]}
                          /\ ev' = Event("poll", c, j, Fetched(resp))
                     ELSE /\ runs' = runs \cup
                               {[chat |-> c, id |-> j, pc |-> "await_edit",
                                 text |-> text, mid |-> message_ids[c]]}
                          /\ ev' = Event("poll", c, j, Fetched(resp))
  /\ UNCHANGED <<registry, track, anims, msgs, next_task, sent_text>>
  /\ TaskFrame

\* bot.py lines 206-210: start the animation task unless one is registered.
StartAnimation(r) ==
  IF r.chat \notin DOMAIN animation_tasks
  THEN /\ next_task < AnimLimit
       /\ next_task' = next_task + 1
       /\ anims' = anims \cup
            {[chat |-> r.chat, id |-> next_task', sess |-> r.id,
              base_text |-> r.text, frame |-> 1, pc |-> "ready", mid |-> 0,
              text |-> NoText]}
       /\ animation_tasks' = Put(animation_tasks, r.chat, next_task')
  ELSE UNCHANGED <<next_task, anims, animation_tasks>>

\* bot.py lines 189-191 and 203-210: send_message returns (the first send or
\* the fallback send) or raises (caught at line 212).
SendDoneBot(r, ok) ==
  /\ variant = "bot"
  /\ r \in runs /\ r.pc \in {"await_send", "await_fallback"}
  /\ runs' = runs \ {r}
  /\ IF ok
     THEN /\ Len(msgs) < MsgLimit
          /\ msgs' = Append(msgs, NewMsg(r.chat, "live", r.id))
          /\ message_ids' = Put(message_ids, r.chat, Len(msgs'))
          /\ sent_text' = [sent_text EXCEPT ![r.chat] = r.text]
          /\ StartAnimation(r)
          /\ ev' = Event("send_done", r.chat, r.id, "ok")
     ELSE /\ UNCHANGED <<msgs, message_ids, sent_text, next_task, anims,
                         animation_tasks>>
          /\ ev' = Event("send_done", r.chat, r.id, "failed")
  /\ UNCHANGED <<active_trains, tasks, last_station_code, jobs, track>>
  /\ TaskFrame

\* bot.py lines 193-204: edit_message_text returns, or raises and the run
\* falls back to send_message.
EditDoneBot(r, ok) ==
  /\ variant = "bot"
  /\ r \in runs /\ r.pc = "await_edit"
  /\ IF ok
     THEN /\ runs' = runs \ {r}
          /\ sent_text' = [sent_text EXCEPT ![r.chat] = r.text]
          /\ StartAnimation(r)
          /\ ev' = Event("edit_done", r.chat, r.id, "ok")
     ELSE /\ runs' = (runs \ {r}) \cup {[r EXCEPT !.pc = "await_fallback"]}
          /\ UNCHANGED <<sent_text, next_task, anims, animation_tasks>>
          /\ ev' = Event("edit_done", r.chat, r.id, "failed")
  /\ UNCHANGED <<active_trains, message_ids, tasks, last_station_code, jobs,
                 track, msgs>>
  /\ TaskFrame

\* ------------------------------------------------------------ bot animation
\* bot.py lines 225-237: the next frame is built from base_text and the edit
\* of message_ids[chat_id] is awaited; a missing key raises KeyError, which
\* line 242 catches and the task ends.
AnimTick(a) ==
  /\ variant = "bot"
  /\ a \in anims /\ a.pc = "ready"
  /\ IF a.chat \notin DOMAIN message_ids
     THEN /\ anims' = anims \ {a}
          /\ ev' = Event("anim_tick", a.chat, a.sess, "")
     ELSE /\ anims' = (anims \ {a}) \cup
               {[a EXCEPT !.pc = "await_edit", !.mid = message_ids[a.chat],
                          !.text = animated(a.base_text, frames[a.frame])]}
          /\ ev' = Event("anim_tick", a.chat, a.sess, "")
  /\ UNCHANGED <<registry, track, runs, msgs, next_task, sent_text>>
  /\ TaskFrame

\* bot.py lines 232-243: the edit returns and the task sleeps one second
\* before the next frame, or raises and the task ends (it stays in
\* animation_tasks).
AnimEditDone(a, ok) ==
  /\ variant = "bot"
  /\ a \in anims /\ a.pc = "await_edit"
  /\ IF ok
     THEN /\ anims' = (anims \ {a}) \cup
               {[a EXCEPT !.pc = "ready", !.mid = 0, !.text = NoText,
                          !.frame = (a.frame % Len(frames)) + 1]}
          /\ ev' = Event("anim_done", a.chat, a.sess, "ok")
     ELSE /\ anims' = anims \ {a}
          /\ ev' = Event("anim_done", a.chat, a.sess, "failed")
  /\ UNCHANGED <<registry, track, runs, msgs, next_task, sent_text>>
  /\ TaskFrame

\* ------------------------------------------------------------ specification
Next ==
  \/ \E c \in chats, t \in Trains : AddTrain(c, <<t>>)
  \/ \E c \in chats : AddTrain(c, <<>>)
  \/ \E c \in chats : RemoveTrain(c)
  \/ \E ok \in BOOLEAN : AddReplyBot1(ok)
  \/ \E k \in track, resp \in Responses : PollBot1(k, resp)
  \/ \E k \in track, ok \in BOOLEAN : EditDoneBot1(k, ok)
  \/ \E k \in track, ok \in BOOLEAN : SendDoneBot1(k, ok)
  \/ \E c \in Chats : \E j \in jobs[c], resp \in Responses :
       JobRun(c, j, resp)
  \/ \E r \in runs, ok \in BOOLEAN : SendDoneBot(r, ok)
  \/ \E r \in runs, ok \in BOOLEAN : EditDoneBot(r, ok)
  \/ \E a \in anims : AnimTick(a)
  \/ \E a \in anims, ok \in BOOLEAN : AnimEditDone(a, ok)

Spec == Init /\ [][Next]_vars

\* Two chats talk to the bot.
InitTwoChats ==
  /\ variant \in Variants
  /\ chats = Chats
  /\ InitProgram
  /\ info = [route |-> Route, code |-> PyNone]
  /\ ctx = NoneOpt

SpecTwoChats == InitTwoChats /\ [][Next]_vars

\* ------------------------------------------------------------ resolver spec
\* The resolvers applied to every route and code of the bounded input sets.
InitCtx ==
  /\ variant = "bot1"
  /\ chats = {}
  /\ InitProgram
  /\ info \in [route : Routes, code : Codes]
  /\ ctx = NoneOpt

CtxFrame ==
  UNCHANGED <<variant, chats, registry, background, handler, msgs, next_task,
              session, sent_text, ev, info>>

ApplyGetContext ==
  /\ ctx = NoneOpt
  /\ ctx' = Some([fn |-> "get_context", raised |-> FALSE,
                  out |-> get_context(info)])
  /\ CtxFrame

ApplyResolveBot ==
  /\ ctx = NoneOpt
  /\ LET r == resolve_bot(info)
     IN ctx' = Some([fn |-> "fetch_and_render", raised |-> r.raised,
                     out |-> [cur |-> r.cur, prev |-> r.prev, nxt |-> r.nxt]])
  /\ CtxFrame

NextCtx == ApplyGetContext \/ ApplyResolveBot

SpecCtx == InitCtx /\ [][NextCtx]_vars

\* ------------------------------------------------------------ delay spec
\* The delay texts applied to every input of the bounded input sets.
InitDelay ==
  /\ variant \in Variants
  /\ chats = {}
  /\ InitProgram
  /\ IF variant = "bot1"
     THEN info \in [sec : Secs]
     ELSE info \in [actual : Times, scheduled : Times]
  /\ ctx = NoneOpt

ApplyDelayFromSecs ==
  /\ variant = "bot1"
  /\ ctx = NoneOpt
  /\ ctx' = Some([fn |-> "delay_from_secs", out |-> delay_from_secs(info.sec)])
  /\ CtxFrame

ApplyDelayHm ==
  /\ variant = "bot"
  /\ ctx = NoneOpt
  /\ ctx' = Some([fn |-> "delay_hm",
                  out |-> delay_hm(info.actual, info.scheduled)])
  /\ CtxFrame

NextDelay == ApplyDelayFromSecs \/ ApplyDelayHm

SpecDelay == InitDelay /\ [][NextDelay]_vars

\* ------------------------------------------------------------ properties
TrackOf(c) == {k \in track : k.chat = c}
RunsOf(c) == {r \in runs : r.chat = c}
AnimsOf(c) == {a \in anims : a.chat = c}
\* The engine's calls in flight, of either variant.
InFlight ==
  {[chat |-> k.chat, id |-> k.id, pc |-> k.pc, text |-> k.text,
    mid |-> k.mid] : k \in track}
  \cup {[chat |-> r.chat, id |-> r.id, pc |-> r.pc, text |-> r.text,
         mid |-> r.mid] : r \in runs}
\* Session id of chat c is the one tracking is active for.
Current(c, id) == c \in DOMAIN active_trains /\ session[c] = id
\* The live-status messages session id of chat c has sent.
LiveOf(c, id) == {m \in 1..Len(msgs) : msgs[m] = NewMsg(c, "live", id)}
NoEntry(c) ==
  /\ c \notin DOMAIN active_trains
  /\ c \notin DOMAIN message_ids
  /\ c \notin DOMAIN tasks
  /\ c \notin DOMAIN last_station_code
  /\ c \notin DOMAIN animation_tasks
  /\ jobs[c] = {}

\* C1: in every reachable state each chat has at most one unfinished,
\* non-cancelled tracking task (bot1) or repeating poll job (bot) and at most
\* one such animation task; while a train is tracked for the chat (so also
\* after two /addtrain in a row) there is exactly one tracking task or job.
C1_OneTaskPerChat ==
  \A c \in Chats :
    /\ Cardinality(TrackOf(c)) <= 1
    /\ Cardinality(jobs[c]) <= 1
    /\ Cardinality(AnimsOf(c)) <= 1
    /\ c \in DOMAIN active_trains =>
         IF variant = "bot" THEN Cardinality(jobs[c]) = 1
         ELSE Cardinality(TrackOf(c)) = 1

\* The second /addtrain in a row has just replaced a running task: the
\* message id of the first session is still stored, so no /removetrain came
\* between.
C1_Witness ==
  /\ variant = "bot1"
  /\ ev.op = "add_train" /\ ev.arg \in Trains
  /\ session[ev.chat] = 2
  /\ ev.chat \in DOMAIN message_ids
  /\ Cardinality(TrackOf(ev.chat)) = 1

\* C2: right after /addtrain <train> the chat has no stored message id and
\* no last-seen station code, the new train is stored, only the new task or
\* job exists and it has not polled yet; and no poll edits a message that an
\* earlier session left behind.
C2_StartTrackingResets ==
  /\ (ev.op = "add_train" /\ ev.arg \in Trains) =>
       /\ ev.chat \notin DOMAIN message_ids
       /\ ev.chat \notin DOMAIN last_station_code
       /\ active_trains[ev.chat] = ev.arg
       /\ AnimsOf(ev.chat) = {}
       /\ \A k \in TrackOf(ev.chat) :
            k.id = session[ev.chat] /\ k.pc = "ready"
       /\ variant = "bot" => jobs[ev.chat] = {session[ev.chat]}
  /\ \A f \in InFlight :
       f.pc = "await_edit" => msgs[f.mid].sess = f.id

C4_NoActionAfterStop ==
  [][\A c \in Chats :
       (/\ ev'.chat = c
        /\ ev'.op \in {"poll", "send_done", "edit_done", "anim_tick",
                       "anim_done"}
        /\ ~Current(c, ev'.id)) =>
         /\ message_ids' = message_ids
         /\ msgs' = msgs
         /\ anims' \subseteq anims
         /\ runs' \subseteq runs
         /\ track' \subseteq track]_vars

\* C5: a poll cycle whose fetch raised or returned success=false issues no
\* send and no edit, leaves the stored message ids alone and leaves the
\* chat's task or job as it was.
C5_FailedFetchTouchesNothing ==
  [][(ev'.op = "poll" /\ ev'.arg \in {"error", "unsuccessful"}) =>
       /\ message_ids' = message_ids
       /\ msgs' = msgs
       /\ sent_text' = sent_text
       /\ track' = track /\ runs' = runs /\ anims' = anims
       /\ tasks' = tasks /\ jobs' = jobs]_vars

\* A failed poll of a session that already has its live message.
C5_Witness ==
  /\ ev.op = "poll" /\ ev.arg \in {"error", "unsuccessful"}
  /\ ev.chat \in DOMAIN message_ids
  /\ Current(ev.chat, ev.id)
  /\ (TrackOf(ev.chat) # {} \/ jobs[ev.chat] # {})

\* C6: within a session the engine sends only while the session has no live
\* message yet, records the id of what it sent, and every edit it issues
\* targets a live message of its own session.
C6_SendOncePerSession ==
  /\ \A f \in InFlight :
       /\ f.pc = "await_edit" => f.mid \in LiveOf(f.chat, f.id)
       /\ f.pc = "await_send" => LiveOf(f.chat, f.id) = {}
  /\ (ev.op = "send_done" /\ ev.arg = "ok" /\ Current(ev.chat, ev.id)) =>
       message_ids[ev.chat] = Len(msgs)

\* C7: an edit is in flight only with a text that differs from the last text
\* the engine sent or edited for the chat.
C7_EditOnlyIfChanged ==
  \A f \in InFlight : f.pc = "await_edit" => f.text # sent_text[f.chat]

\* C8: when the edit of a poll cycle has failed, the same cycle goes on to
\* send a new message (whose id is then recorded).
C8_EditFailureFallsBack ==
  (ev.op = "edit_done" /\ ev.arg = "failed") =>
    \E f \in InFlight :
      /\ f.chat = ev.chat /\ f.id = ev.id
      /\ f.pc \in {"await_fallback", "await_send"}

\* C9: /addtrain without a train number changes no registry map and cancels
\* or starts no task.
C9_UsageChangesNothing ==
  [][(ev'.op = "add_train" /\ ev'.arg = "") =>
       UNCHANGED <<registry, background, handler, msgs, next_task,
                   session>>]_vars

\* The usage error on a chat that is tracked and has a task and a message.
C9_Witness ==
  /\ ev.op = "add_train" /\ ev.arg = ""
  /\ ev.chat \in DOMAIN active_trains
  /\ ev.chat \in DOMAIN message_ids
  /\ (TrackOf(ev.chat) # {} \/ AnimsOf(ev.chat) # {})

\* What C10 asks of the resolver, stated without the scan: the least index
\* whose code equals the reported one, and its neighbours in the route.
Matches(route, code) == {i \in 1..Len(route) : route[i].stationCode = code}
Expected(route, code) ==
  IF Matches(route, code) = {}
  THEN [cur |-> NoneOpt, prev |-> NoneOpt, nxt |-> NoneOpt]
  ELSE LET i == CHOOSE x \in Matches(route, code) :
                  \A y \in Matches(route, code) : x <= y
       IN [cur |-> Some(route[i]),
           prev |-> IF i = 1 THEN NoneOpt ELSE Some(route[i - 1]),
           nxt |-> IF i = Len(route) THEN NoneOpt ELSE Some(route[i + 1])]

\* bot.py resolves inline instead of calling get_context: the same triple
\* when a station has the code, StopIteration when none has.
ResolveBotAgrees ==
  (ctx # NoneOpt /\ ctx[1].fn = "fetch_and_render") =>
    LET e == Expected(info.route, info.code)
    IN /\ ctx[1].raised <=> e.cur = NoneOpt
       /\ ~ctx[1].raised => ctx[1].out = e

\* C10: get_context returns the first station with the reported code, its
\* predecessor and successor in the route (absent at the ends), and three
\* absent values when no station has the code.
C10_ResolverFirstMatch ==
  (ctx # NoneOpt /\ ctx[1].fn = "get_context") =>
    /\ ~ctx[1].raised
    /\ ctx[1].out = Expected(info.route, info.code)

\* get_context has resolved a code that two stations of the route carry,
\* the first of them in the middle of the route.
C10_Witness ==
  /\ ctx # NoneOpt /\ ctx[1].fn = "get_context"
  /\ Cardinality(Matches(info.route, info.code)) = 2
  /\ ctx[1].out.prev # NoneOpt
  /\ ctx[1].out.nxt # NoneOpt

\* bot.py's delay_hm takes two timestamps instead of a delay: "N/A" when one
\* is absent, otherwise the same split of the difference into hours and
\* minutes, in the short format "{h}h {m}m".
DelayHmSplits ==
  (ctx # NoneOpt /\ ctx[1].fn = "delay_hm") =>
    LET a == info.actual
        t == info.scheduled
        o == ctx[1].out
    IN IF a \in {NoneOpt, Some(0)} \/ t \in {NoneOpt, Some(0)}
       THEN o.fmt = "N/A"
       ELSE IF a[1] - t[1] <= 0 THEN o.fmt = "On Time"
       ELSE /\ o.h = (IF (a[1] - t[1]) \div 3600 = 0 THEN 0
                      ELSE (a[1] - t[1]) \div 3600)
            /\ o.m = ((a[1] - t[1]) % 3600) \div 60
            /\ o.fmt = (IF (a[1] - t[1]) \div 3600 = 0 THEN "{m}m"
                        ELSE "{h}h {m}m")

\* C11: delay_from_secs returns "On Time" for an absent delay and for a
\* delay <= 0; for a positive delay it returns the text with
\* H = secs div 3600 hours and M = (secs mod 3600) div 60 minutes, and the
\* hour component is left out exactly when H = 0.
C11_DelayClassification ==
  (ctx # NoneOpt /\ ctx[1].fn = "delay_from_secs") =>
    LET o == ctx[1].out
    IN IF info.sec = NoneOpt \/ info.sec[1] <= 0
       THEN o = DelayText("On Time", 0, 0)
       ELSE LET H == info.sec[1] \div 3600
                M == (info.sec[1] % 3600) \div 60
            IN /\ (H = 0) <=> (o.fmt = "{m} minute late")
               /\ (H # 0) <=> (o.fmt = "{h} hour {m} minute late")
               /\ o.m = M
               /\ H # 0 => o.h = H

\* 3660 seconds have been classified as 1 hour 1 minute late.
C11_Witness ==
  /\ ctx # NoneOpt /\ ctx[1].fn = "delay_from_secs"
  /\ info.sec = Some(3660)
  /\ ctx[1].out = DelayText("{h} hour {m} minute late", 1, 1)

\* The edits of chat c's tracked message that are awaited right now.
EngineEdits(c) == {f \in InFlight : f.chat = c /\ f.pc = "await_edit"}
OverlayEdits(c) == {a \in AnimsOf(c) : a.pc = "await_edit"}

\* C12: for each chat at most one edit of the tracked message is in flight,
\* of the tracking engine and the animation overlay together, and a frame
\* the overlay is writing is built from the latest base text the engine
\* rendered into the message.
C12_OneEditInFlight ==
  \A c \in Chats :
    /\ Cardinality(EngineEdits(c)) + Cardinality(OverlayEdits(c)) <= 1
    /\ \A a \in OverlayEdits(c) : a.base_text = sent_text[c]

\* C13: when a poll of the chat's current session has written a base text
\* that differs from the one the message showed (the station changed, or it
\* is the first render), an animation overlay of the chat is running
\* afterwards and every running overlay of the chat works from that text.
C13_TransitionRestartsOverlay ==
  [][\A c \in Chats :
       (/\ ev'.chat = c
        /\ ev'.op \in {"send_done", "edit_done"}
        /\ ev'.arg = "ok"
        /\ Current(c, ev'.id)
        /\ sent_text'[c] # sent_text[c]) =>
         /\ AnimsOf(c)' # {}
         /\ \A a \in AnimsOf(c)' : a.base_text = sent_text'[c]]_vars

\* The reported station code is a code of a station of the route.
InRoute(code) == \E i \in 1..Len(Route) : Route[i].stationCode = code

\* C14: a poll whose response is successful but reports a station code that
\* no station of the route has issues no send and no edit and stores
\* nothing, and the chat's task or job stays as it was for the next cycle.
C14_UnresolvedSkipsRender ==
  [][(/\ ev'.op = "poll"
      /\ ev'.arg \notin {"error", "unsuccessful"}
      /\ ~InRoute(ev'.arg)
      /\ Current(ev'.chat, ev'.id)) =>
       /\ track' = track /\ runs' = runs
       /\ msgs' = msgs /\ message_ids' = message_ids
       /\ sent_text' = sent_text
       /\ tasks' = tasks /\ jobs' = jobs]_vars

\* The event loop resumes every task whose sleep or awaited call is over,
\* every awaited Telegram call returns or raises, and the job queue fires
\* every scheduled job again.
PollStep(c) ==
  \/ \E k \in TrackOf(c), resp \in Responses : PollBot1(k, resp)
  \/ \E j \in jobs[c], resp \in Responses : JobRun(c, j, resp)
EngineDone(c) ==
  \/ \E k \in TrackOf(c), ok \in BOOLEAN : EditDoneBot1(k, ok)
  \/ \E k \in TrackOf(c), ok \in BOOLEAN : SendDoneBot1(k, ok)
  \/ \E r \in RunsOf(c), ok \in BOOLEAN : SendDoneBot(r, ok)
  \/ \E r \in RunsOf(c), ok \in BOOLEAN : EditDoneBot(r, ok)
OverlayStep(c) ==
  \/ \E a \in AnimsOf(c) : AnimTick(a)
  \/ \E a \in AnimsOf(c), ok \in BOOLEAN : AnimEditDone(a, ok)
Fairness ==
  \A c \in Chats :
    /\ WF_vars(PollStep(c))
    /\ WF_vars(EngineDone(c))
    /\ WF_vars(OverlayStep(c))

SpecLive == Init /\ [][Next]_vars /\ Fairness

\* C15: if from some point on tracking stays active for a chat, its engine
\* polls again and again: whatever a cycle ran into (failed or unsuccessful
\* fetch, unresolvable station, failed send or edit), another poll follows.
C15_EngineKeepsPolling ==
  \A c \in Chats :
    <>[](c \in DOMAIN active_trains) => []<><<PollStep(c)>>_vars

\* A cycle of the current session has just had its edit fail and the engine
\* is due for its next poll.
C15_Witness ==
  /\ ev.op = "edit_done" /\ ev.arg = "failed"
  /\ Current(ev.chat, ev.id)
  /\ \/ \E k \in TrackOf(ev.chat) : k.pc = "ready" /\ k.id = ev.id
     \/ ev.id \in jobs[ev.chat]

\* C16: (bot.py, the variant with an overlay) a failed overlay edit ends that
\* overlay task and leaves the chat's poll job scheduled; and when a poll of
\* the current session has sent or edited the base message while no overlay
\* of the chat was running, an overlay is running afterwards.
C16_OverlayStopsAndRestarts ==
  [][variant = "bot" =>
       \A c \in Chats :
         /\ (ev'.chat = c /\ ev'.op = "anim_done" /\ ev'.arg = "failed") =>
              /\ AnimsOf(c)' = {}
              /\ jobs' = jobs
         /\ (/\ ev'.chat = c
             /\ ev'.op \in {"send_done", "edit_done"}
             /\ ev'.arg = "ok"
             /\ Current(c, ev'.id)
             /\ AnimsOf(c) = {}) =>
              AnimsOf(c)' # {}]_vars

\* C17: a chat without an active train has no tracking or animation task
\* handle, no poll job, no unfinished tracking or animation task and no
\* stored message id.
C17_NothingWithoutTrain ==
  \A c \in Chats :
    c \notin DOMAIN active_trains =>
      /\ c \notin DOMAIN tasks
      /\ c \notin DOMAIN animation_tasks
      /\ c \notin DOMAIN message_ids
      /\ jobs[c] = {}
      /\ TrackOf(c) = {}
      /\ AnimsOf(c) = {}

\* C18: a stored message id is the id of a live-status message that the
\* tracking engine sent to that chat in the chat's current session.
C18_StoreHoldsLiveMessage ==
  \A c \in DOMAIN message_ids :
    /\ message_ids[c] \in 1..Len(msgs)
    /\ msgs[message_ids[c]] = NewMsg(c, "live", session[c])

\* What the program holds for chat c: its entries in the maps, its tasks,
\* job and runs, its messages and the text of its tracked message.
At(d, c) == IF c \in DOMAIN d THEN Some(d[c]) ELSE NoneOpt
ChatState(c) ==
  <<At(active_trains, c), At(message_ids, c), At(tasks, c),
    At(last_station_code, c), At(animation_tasks, c), jobs[c],
    TrackOf(c), RunsOf(c), AnimsOf(c),
    {m \in 1..Len(msgs) : msgs[m].chat = c}, sent_text[c], session[c]>>

\* C19: a step taken for one chat (a command, a step of a poll cycle or of
\* an overlay) leaves everything the program holds for every other chat
\* unchanged, and every edit in flight targets a message of its own chat.
C19_ChatsIndependent ==
  [][\A a \in Chats, b \in Chats :
       (ev'.chat = a /\ b # a) =>
         /\ ChatState(b)' = ChatState(b)
         /\ \A f \in InFlight' :
              f.pc = "await_edit" => msgs'[f.mid].chat = f.chat
         /\ \A o \in anims' :
              o.pc = "await_edit" => msgs'[o.mid].chat = o.chat]_vars

\* A poll cycle of chat 1 has just sent its message while chat 2 is tracked
\* and has a stored message of its own.
C19_Witness ==
  /\ ev.op = "send_done" /\ ev.arg = "ok" /\ ev.chat = 1
  /\ 2 \in DOMAIN active_trains
  /\ 2 \in DOMAIN message_ids
  /\ 1 \in DOMAIN message_ids

\* Replacing the decorated anchors of frame f back by the plain anchors.
unapply_frame(text, f) ==
  [i \in 1..Len(text) |->
     ReplaceLine(
       ReplaceLine(
         ReplaceLine(text[i], Decorated(CurAnchor, f.c), CurAnchor),
         Decorated(PrevAnchor, f.p), PrevAnchor),
       Decorated(NextAnchor, f.n), NextAnchor)]

\* C20: the frame an overlay task is writing has the lines of its base text,
\* with every line that is not a section header unchanged and every section
\* header carrying exactly the decoration of the current frame (nothing left
\* over from an earlier frame); replacing the decorated headers back gives
\* the base text; and a task's base text never changes between ticks.
C20_FramesFromBaseText ==
  [][\A a \in anims' :
       /\ \A b \in anims : b.id = a.id => a.base_text = b.base_text
       /\ a.pc = "await_edit" =>
            LET f == frames[a.frame]
                base == a.base_text
            IN /\ Len(a.text) = Len(base)
               /\ \A i \in 1..Len(base) :
                    /\ a.text[i].body = base[i].body
                    /\ base[i] \notin {CurAnchor, PrevAnchor, NextAnchor} =>
                         a.text[i] = base[i]
                    /\ base[i] = CurAnchor => a.text[i].glyph = f.c
                    /\ base[i] = PrevAnchor => a.text[i].glyph = f.p
                    /\ base[i] = NextAnchor => a.text[i].glyph = f.n
               /\ unapply_frame(a.text, f) = base]_vars

\* An overlay is writing its third frame, after two earlier ticks, of a text
\* that has all three section headers.
C20_Witness ==
  \E a \in anims :
    /\ a.pc = "await_edit" /\ a.frame = 3
    /\ \E i \in 1..Len(a.base_text) : a.base_text[i] = PrevAnchor
    /\ \E i \in 1..Len(a.base_text) : a.base_text[i] = NextAnchor
    /\ a.text # a.base_text
=============================================================================
